---- MODULE Spec2Model ----
(***************************************************************************)
(* Model of the pattern simplification engine of RegexFactory: the node    *)
(* constructors with their rendered text, the example oracle, the union    *)
(* operator (|) and the concatenation operator (+).                        *)
(*                                                                         *)
(* A node is a record: kind is the Python class, regex the rendered text,  *)
(* and the remaining fields are the attributes the class stores.           *)
(* Characters are code points; example strings are sequences of code       *)
(* points.  A raised exception is the node Raise(name).                    *)
(***************************************************************************)
EXTENDS Integers, Sequences, FiniteSets, Bags, TLC

VARIABLES a, b, c, out, op, hashSeed

vars == <<a, b, c, out, op, hashSeed>>

(***************************************************************************)
(* Bounds of the model.                                                    *)
(***************************************************************************)
\* largest occurrence count given to an Amount constructor by the inputs
MaxCount == 3
\* number of modelled set-iteration orders (PYTHONHASHSEED values)
MaxSeed == 3

(***************************************************************************)
(* Characters and text.                                                    *)
(***************************************************************************)
Printable ==
  << " ", "!", "\"", "#", "$", "%", "&", "'", "(", ")", "*", "+",
     ",", "-", ".", "/", "0", "1", "2", "3", "4", "5", "6", "7",
     "8", "9", ":", ";", "<", "=", ">", "?", "@", "A", "B", "C",
     "D", "E", "F", "G", "H", "I", "J", "K", "L", "M", "N", "O",
     "P", "Q", "R", "S", "T", "U", "V", "W", "X", "Y", "Z", "[",
     "\\", "]", "^", "_", "\\x96", "a", "b", "c", "d", "e", "f", "g",
     "h", "i", "j", "k", "l", "m", "n", "o", "p", "q", "r", "s",
     "t", "u", "v", "w", "x", "y", "z", "{", "|", "}", "~" >>

\* chr(): the text of one code point (unprintable ones by a numbered token)
Chr(n) == IF n >= 32 /\ n <= 126 THEN Printable[n - 31] ELSE "\\x" \o ToString(n)

RECURSIVE FoldRange(_, _, _, _)
\* a loop "for k in lo..hi: acc = Step(acc, k)", run in order
FoldRange(Step(_, _), lo, hi, acc) ==
  IF lo > hi THEN acc
  ELSE IF lo = hi THEN Step(acc, lo)
  ELSE LET mid == (lo + hi) \div 2
           front == FoldRange(Step, lo, mid, acc)
       IN IF front = front THEN FoldRange(Step, mid + 1, hi, front) ELSE acc

\* the text of a string of code points
Text(s) ==
  LET Step(acc, k) == acc \o Chr(s[k]) IN FoldRange(Step, 1, Len(s), "")

Hyphen == 45
Caret == 94

\* all code points the oracle and the matcher are modelled on
AllChars == 0..255

(***************************************************************************)
(* The example generator's category tables (exrex CATEGORIES) and the      *)
(* matcher's own classes (re) on the same code points.                     *)
(***************************************************************************)
ExAny == 32..122
ExDigit == 48..57
ExSpace == (9..13) \cup {32}
ExWord == (48..57) \cup (65..90) \cup {95} \cup (97..122) \cup {170}
          \cup (178..179) \cup {181} \cup (185..186) \cup (188..190)
          \cup (192..214) \cup (216..246) \cup (248..255)

ReAny == AllChars \ {10}
ReDigit == 48..57
ReSpace == (9..13) \cup (28..32) \cup {133, 160}
ReWord == ExWord

Raise(name) == [kind |-> "Error", regex |-> "", err |-> name]
IsErr(p) == p.kind = "Error"

NoneValue == [kind |-> "None", regex |-> ""]
IsNone(p) == p.kind = "None"

NoJ == -1


(***************************************************************************)
(* Character classes: the body of "[...]" is a string of code points that   *)
(* the generator and the matcher parse again from the rendered text:       *)
(* a leading ^ negates, x-y is a range, anything else is a literal.        *)
(* Bodies holding "\", "[" or "]" are outside the model.                   *)
(***************************************************************************)
ClassNegated(body) == Len(body) >= 1 /\ body[1] = Caret

ClassRest(body) == IF ClassNegated(body) THEN Tail(body) ELSE body

\* the items of a class body read from left to right: the code points
\* listed, and whether a reversed range x-y (x > y) makes the text unparsable
ClassScan(s) ==
  LET Step(acc, k) ==
        IF k < acc.next THEN acc
        ELSE IF k + 2 <= Len(s) /\ s[k + 1] = Hyphen
        THEN [next |-> k + 3, items |-> acc.items \cup (s[k]..s[k + 2]),
              bad |-> acc.bad \/ s[k] > s[k + 2]]
        ELSE [acc EXCEPT !.next = k + 1, !.items = @ \cup {s[k]}]
  IN FoldRange(Step, 1, Len(s), [next |-> 1, items |-> {}, bad |-> FALSE])

ClassItems(s) == ClassScan(s).items

ClassBadRange(s) == ClassScan(s).bad

ClassFails(body) == ClassRest(body) = <<>> \/ ClassBadRange(ClassRest(body))

\* exrex _in(): a negated class is taken out of category_any
ExClass(body) ==
  IF ClassNegated(body) THEN ExAny \ ClassItems(ClassRest(body))
  ELSE ClassItems(body)

\* re: a negated class accepts every other character
ReClass(body) ==
  IF ClassNegated(body) THEN AllChars \ ClassItems(ClassRest(body))
  ELSE ClassItems(body)

(***************************************************************************)
(* Constructors of the text-only nodes.                                    *)
(***************************************************************************)
\* RegexPattern(text) for a text of literal characters
RegexPattern(s) ==
  [kind |-> "RegexPattern", regex |-> Text(s), cls |-> "lit", body |-> s]

\* CharRegexPattern(text) for a text of literal characters
CharRegexPattern(s) ==
  [kind |-> "CharRegexPattern", regex |-> Text(s), cls |-> "lit", body |-> s]

ANY == [kind |-> "CharRegexPattern", regex |-> ".", cls |-> "any", body |-> <<>>]
DIGIT == [kind |-> "CharRegexPattern", regex |-> "\\d", cls |-> "digit", body |-> <<>>]
WORD == [kind |-> "CharRegexPattern", regex |-> "\\w", cls |-> "word", body |-> <<>>]
WHITESPACE == [kind |-> "CharRegexPattern", regex |-> "\\s", cls |-> "space", body |-> <<>>]

Range(start, stop) ==
  [kind |-> "Range", regex |-> "[" \o Chr(start) \o "-" \o Chr(stop) \o "]",
   cls |-> "in", body |-> <<start, Hyphen, stop>>, start |-> start, stop |-> stop]

Set(chars) ==
  [kind |-> "Set", regex |-> "[" \o Text(chars) \o "]",
   cls |-> "in", body |-> chars]

NotSet(chars) ==
  [kind |-> "NotSet", regex |-> "[^" \o Text(chars) \o "]",
   cls |-> "in", body |-> <<Caret>> \o chars]

\* Group(pattern, capturing=False): the rendered text only
Group(regex) == "(?:" \o regex \o ")"

\* isinstance(p, CharRegexPattern)
IsCharRegexPattern(p) == p.kind \in {"CharRegexPattern", "Range", "Set", "NotSet"}

\* isinstance(p, OccurrenceRegexPattern)
IsOccurrence(p) == p.kind \in {"Optional", "Multi", "Amount"}

\* isinstance(p, CompositionalRegexPattern)
IsCompositional(p) == p.kind = "Or" \/ IsOccurrence(p)

\* nodes whose text is one of the modelled plain texts
IsPlain(p) == p.kind = "RegexPattern" \/ IsCharRegexPattern(p)

\* the one-character strings generated for a plain node of one character
PlainExChars(p) ==
  CASE p.cls = "any" -> ExAny
    [] p.cls = "digit" -> ExDigit
    [] p.cls = "word" -> ExWord
    [] p.cls = "space" -> ExSpace
    [] p.cls = "in" -> ExClass(p.body)
    [] OTHER -> IF Len(p.body) = 1 THEN {p.body[1]} ELSE {}

\* the characters a plain node of one character accepts under fullmatch
PlainReChars(p) ==
  CASE p.cls = "any" -> ReAny
    [] p.cls = "digit" -> ReDigit
    [] p.cls = "word" -> ReWord
    [] p.cls = "space" -> ReSpace
    [] p.cls = "in" -> ReClass(p.body)
    [] OTHER -> IF Len(p.body) = 1 THEN {p.body[1]} ELSE {}


(***************************************************************************)
(* Equality, hashing and Python sets of nodes.                             *)
(***************************************************************************)
RECURSIVE Key(_)
\* what a Python set tells nodes apart by: __hash__ together with __eq__.
\* An Or hashes over its members, any other node over its text.
Key(p) ==
  IF p.kind = "Or"
  THEN [isor |-> TRUE, re |-> "", members |-> {Key(m) : m \in p.patterns}]
  ELSE [isor |-> FALSE, re |-> p.regex, members |-> {}]

\* x == y: Or against Or by member sets, anything else by rendered text
PyEq(x, y) ==
  IF x.kind = "Or" /\ y.kind = "Or"
  THEN {Key(m) : m \in x.patterns} = {Key(m) : m \in y.patterns}
  ELSE x.regex = y.regex

RECURSIVE Hash(_)
RECURSIVE SumOfHashes(_)
\* the sum of the hashes of the nodes of S
SumOfHashes(S) ==
  IF S = {} THEN EmptyBag
  ELSE LET m == CHOOSE x \in S : TRUE IN Hash(m) (+) SumOfHashes(S \ {m})

\* __hash__: the hash of a string stands for itself, a sum of hashes is the
\* bag of its terms. An Or adds hash('Or') and its members' hashes, any
\* other node hashes its text.
Hash(p) ==
  IF p.kind = "Or"
  THEN SetToBag({"Or"}) (+) SumOfHashes(p.patterns)
  ELSE SetToBag({p.regex})

\* set.add: an element equal to one already held is dropped
PySetAdd(S, x) == IF \E m \in S : Key(m) = Key(x) THEN S ELSE S \cup {x}

RECURSIVE PySetOfSeq(_)
\* set(sequence)
PySetOfSeq(s) ==
  IF s = <<>> THEN {}
  ELSE LET n == Len(s) IN PySetAdd(PySetOfSeq(SubSeq(s, 1, n - 1)), s[n])

\* S | T on Python sets: the elements of S win
PySetUnion(S, T) == S \cup {t \in T : \A m \in S : Key(m) # Key(t)}

\* S - T on Python sets
PySetMinus(S, T) == {m \in S : \A t \in T : Key(m) # Key(t)}

\* x in set(list) (by hash and ==)
KeyInList(x, s) == \E k \in 1..Len(s) : Key(s[k]) = Key(x)

RECURSIVE ListRemove(_, _)
\* list.remove(x): drops the first element equal to x
ListRemove(s, x) ==
  IF s = <<>> THEN <<>>
  ELSE IF PyEq(Head(s), x) THEN Tail(s)
  ELSE <<Head(s)>> \o ListRemove(Tail(s), x)

RECURSIVE SetToSeq(_)
SetToSeq(S) ==
  IF S = {} THEN <<>>
  ELSE LET x == CHOOSE y \in S : TRUE IN <<x>> \o SetToSeq(S \ {x})

Reverse(s) == [k \in 1..Len(s) |-> s[Len(s) + 1 - k]]

Rotate(s, n) ==
  IF s = <<>> THEN s
  ELSE [k \in 1..Len(s) |-> s[((k - 1 + n) % Len(s)) + 1]]

\* one of the orders a hash table can hold a listing in
Permute(s, k) ==
  LET base == Rotate(s, k \div 2)
  IN IF k % 2 = 1 THEN Reverse(base) ELSE base

\* the order in which a Python set is iterated: fixed for one process by
\* its hash seed and by what the set holds, different from process to process
IterSet(S) ==
  LET listing == SetToSeq(S)
      Step(acc, k) == acc + Len(listing[k].regex)
  IN Permute(listing, hashSeed - 1 + FoldRange(Step, 1, Len(listing), 0))

RECURSIVE JoinGroups(_)
\* "|".join of the non-capturing groups of the arguments
JoinGroups(s) ==
  IF Len(s) = 1 THEN Group(s[1].regex)
  ELSE Group(Head(s).regex) \o "|" \o JoinGroups(Tail(s))

\* Or(*patterns)
Or(args) ==
  IF \E k \in 1..Len(args) : IsErr(args[k])
  THEN args[CHOOSE k \in 1..Len(args) : IsErr(args[k])]
  ELSE [kind |-> "Or",
        regex |-> IF args = <<>> THEN "" ELSE JoinGroups(args),
        patterns |-> PySetOfSeq(args)]


(***************************************************************************)
(* The example oracle, as far as the constructors need it: whether         *)
(* generation fails, the lengths of the generated strings (2 stands for    *)
(* "two or more") and the generated strings of length one.  odd marks a    *)
(* text whose parse is not the node's structure (a repetition or an        *)
(* alternation binding differently in the rendered text): such nodes are   *)
(* outside the model.                                                      *)
(***************************************************************************)
Plus2(x, y) == IF x + y > 2 THEN 2 ELSE x + y

SumLens(A, B) == {Plus2(x, y) : x \in A, y \in B}

\* lengths of n concatenated examples
RepLens(L, n) ==
  IF n = 0 THEN {0} ELSE IF n = 1 THEN L ELSE SumLens(L, L) \cup (IF 2 \in L THEN {2} ELSE {})

\* the single atoms: a repetition suffix applies to the whole text
IsAtom(p) == IsPlain(p) /\ (p.cls # "lit" \/ Len(p.body) = 1)

SemOf(fails, odd, lens, chars) ==
  [fails |-> fails, odd |-> odd, lens |-> lens, chars |-> chars]

SemRepeat(s, reps) ==
  SemOf(s.fails, s.odd,
        UNION {RepLens(s.lens, IF n > 2 THEN 2 ELSE n) : n \in reps},
        IF 1 \in reps \/ (0 \in s.lens /\ \E n \in reps : n >= 2) THEN s.chars ELSE {})

SemConcat(s, t) ==
  SemOf(s.fails \/ t.fails, s.odd \/ t.odd, SumLens(s.lens, t.lens),
        (IF 0 \in t.lens THEN s.chars ELSE {}) \cup (IF 0 \in s.lens THEN t.chars ELSE {}))

SemEmpty == SemOf(FALSE, FALSE, {0}, {})

\* s, marked odd as well when the text binds differently
SemOdd(s, odd) == SemOf(s.fails, s.odd \/ odd, s.lens, s.chars)

\* the repetition counts an Amount's braces stand for (three for "or more")
AmountReps(p) ==
  IF p.j # NoJ THEN p.i..p.j
  ELSE IF p.or_more THEN p.i..(p.i + 2) ELSE {p.i}

\* the braces applied to the argument's text: a quantifier inside them
\* and an empty count range do not parse
SemAmount(p, s, reps) ==
  IF IsOccurrence(p.arg) \/ reps = {}
  THEN SemOf(TRUE, s.odd, {}, {})
  ELSE SemOdd(SemRepeat(s, reps), ~IsAtom(p.arg))

RECURSIVE Sem(_)
RECURSIVE SemSeq(_)
Sem(p) ==
  CASE IsPlain(p) ->
         IF p.cls = "lit"
         THEN SemOf(FALSE, FALSE, {IF Len(p.body) > 2 THEN 2 ELSE Len(p.body)},
                    IF Len(p.body) = 1 THEN {p.body[1]} ELSE {})
         ELSE IF p.cls = "in" /\ ClassFails(p.body)
         THEN SemOf(TRUE, FALSE, {}, {})
         ELSE SemOf(FALSE, FALSE, {1}, PlainExChars(p))
    [] p.kind = "Or" ->
         SemOf(\E m \in p.patterns : Sem(m).fails,
               \E m \in p.patterns : Sem(m).odd,
               UNION {Sem(m).lens : m \in p.patterns},
               UNION {Sem(m).chars : m \in p.patterns})
    [] p.kind = "Optional" -> SemRepeat(Sem(p.pattern), {0, 1})
    [] p.kind = "Multi" ->
         SemRepeat(Sem(p.pattern), IF p.match_zero THEN {0, 1, 2} ELSE {1, 2})
    [] p.kind = "Amount" -> SemAmount(p, Sem(p.arg), AmountReps(p))
    [] p.kind = "LongRegexPattern" ->
         SemOdd(SemSeq(p.patterns),
                \E k \in 1..Len(p.patterns) : p.patterns[k].kind = "Or")
    [] OTHER -> SemOf(TRUE, TRUE, {}, {})

SemSeq(s) == IF s = <<>> THEN SemEmpty ELSE SemConcat(Sem(Head(s)), SemSeq(Tail(s)))


(***************************************************************************)
(* Character-class canonicalizer (CharRegexPattern.__or__ on two           *)
(* character nodes) and its helpers.                                       *)
(***************************************************************************)
SpecialChars == <<ANY, DIGIT, WORD, WHITESPACE>>

\* SpecialCharRegexPattern.match_special_char_regex on a set of characters
match_special_char_regex(E) ==
  IF \E k \in 1..Len(SpecialChars) : E = PlainExChars(SpecialChars[k])
  THEN SpecialChars[CHOOSE k \in 1..Len(SpecialChars) :
                      /\ E = PlainExChars(SpecialChars[k])
                      /\ \A h \in 1..(k - 1) : E # PlainExChars(SpecialChars[h])]
  ELSE NoneValue

\* sorted(E) for a set of code points
SortedList(E) ==
  LET Step(acc, x) == IF x \in E THEN Append(acc, x) ELSE acc
  IN FoldRange(Step, 0, 255, <<>>)

\* CharRegexPattern._group_consecutive
group_consecutive(ascii_list) ==
  LET Step(groups, k) ==
        IF k = 1 THEN <<<<ascii_list[1]>>>>
        ELSE IF ascii_list[k - 1] + 1 = ascii_list[k]
        THEN [groups EXCEPT ![Len(groups)] = Append(@, ascii_list[k])]
        ELSE Append(groups, <<ascii_list[k]>>)
  IN FoldRange(Step, 1, Len(ascii_list), <<>>)

RECURSIVE Flatten(_)
Flatten(ss) == IF ss = <<>> THEN <<>> ELSE Head(ss) \o Flatten(Tail(ss))

RECURSIVE SelectSeq2(_, _)
\* [x for x in s if x in keep], keep being indices
SelectSeq2(s, keep) ==
  IF s = <<>> THEN <<>>
  ELSE LET n == Len(s)
           front == SelectSeq2(SubSeq(s, 1, n - 1), keep)
       IN IF n \in keep THEN Append(front, s[n]) ELSE front

RECURSIVE CombosFrom(_, _, _)
\* itertools.combinations of the indices lo..n, k at a time, in its order
CombosFrom(lo, n, k) ==
  IF k = 0 THEN <<<<>>>>
  ELSE IF lo > n - k + 1 THEN <<>>
  ELSE LET sub == CombosFrom(lo + 1, n, k - 1)
       IN [x \in 1..Len(sub) |-> <<lo>> \o sub[x]] \o CombosFrom(lo + 1, n, k)

RECURSIVE CombosUp(_, _)
\* the sub-collections smallest first
CombosUp(n, k) == IF k < 1 THEN <<>> ELSE CombosUp(n, k - 1) \o CombosFrom(1, n, k)

RECURSIVE CombosDown(_, _)
CombosDown(n, k) == IF k < 1 THEN <<>> ELSE CombosFrom(1, n, k) \o CombosDown(n, k - 1)

\* _combination_generate: the sub-collections of sizes n-1 down to 1
combination_generate(input_list) ==
  LET idx == CombosDown(Len(input_list), Len(input_list) - 1)
  IN [x \in 1..Len(idx) |-> [y \in 1..Len(idx[x]) |-> input_list[idx[x][y]]]]

\* the union of the members' example sets
UnionExamples(mg) == UNION {PlainExChars(mg[k]) : k \in 1..Len(mg)}

\* CharRegexPattern._find_merged_regex: the mapping in insertion order
\* what its loop computes for each sub-collection: the union of the
\* members' examples and the special class matching it, if any
MergeWay(mg, ue) ==
  [kind |-> "Entry", key |-> mg, examples |-> ue, regex |-> match_special_char_regex(ue)]

MergeCandidates(combos) ==
  [k \in 1..Len(combos) |-> MergeWay(combos[k], UnionExamples(combos[k]))]

\* the loop without the test against the mappings already recorded
MergeWaysOf_NoCover(ways) ==
  SelectSeq(ways, LAMBDA w : ~IsNone(w.regex))

\* its loop: a candidate is kept unless an earlier one covers its examples
MergeWaysOf(ways) ==
  LET Step(merged, k) ==
        IF /\ ~IsNone(ways[k].regex)
           /\ ~\E x \in 1..Len(merged) : ways[k].examples \subseteq merged[x].examples
        THEN Append(merged, ways[k])
        ELSE merged
  IN FoldRange(Step, 1, Len(ways), <<>>)

find_merged_regex(regex_groups) ==
  MergeWaysOf(MergeCandidates(combination_generate(regex_groups)))

\* utils.find_merge_ways with match_special_char_regex as the callable: the
\* same loop as _find_merged_regex
find_merge_ways(regex_groups) ==
  MergeWaysOf(MergeCandidates(combination_generate(regex_groups)))

RECURSIVE RemoveAll(_, _)
RemoveAll(list, key) ==
  IF key = <<>> THEN list ELSE RemoveAll(ListRemove(list, Head(key)), Tail(key))

\* sorted(keys, key=len, reverse=True): stable, longest keys first
RECURSIVE SortByLenDesc(_)
SortByLenDesc(m) ==
  IF m = <<>> THEN <<>>
  ELSE LET top == CHOOSE x \in 1..Len(m) :
                    /\ \A y \in 1..Len(m) : Len(m[y].key) <= Len(m[x].key)
                    /\ \A y \in 1..(x - 1) : Len(m[y].key) < Len(m[x].key)
       IN <<m[top]>> \o SortByLenDesc(SelectSeq2(m, (1..Len(m)) \ {top}))

RECURSIVE ApplyMerges(_, _)
\* replaces each mapped sub-collection still present by its merged node
ApplyMerges(list, ways) ==
  IF ways = <<>> THEN list
  ELSE LET w == Head(ways)
       IN IF \A k \in 1..Len(w.key) : KeyInList(w.key[k], list)
          THEN ApplyMerges(Append(RemoveAll(list, w.key), w.regex), Tail(ways))
          ELSE ApplyMerges(list, Tail(ways))

\* the fragment list of a character set: one Range per run of three or
\* more consecutive code points, then one Set of all the other characters
SimpleGroup(ascii_groups) ==
  UNION {{ascii_groups[k][x] : x \in 1..Len(ascii_groups[k])} :
           k \in {h \in 1..Len(ascii_groups) : Len(ascii_groups[h]) <= 2}}

OtherGroups(ascii_groups) ==
  SelectSeq2(ascii_groups, {h \in 1..Len(ascii_groups) : Len(ascii_groups[h]) > 2})

RangesOf(other_groups) ==
  [k \in 1..Len(other_groups) |->
     Range(other_groups[k][1], other_groups[k][Len(other_groups[k])])]

Fragments(the_ranges, simple_group) ==
  IF simple_group # {} THEN Append(the_ranges, Set(SortedList(simple_group)))
  ELSE the_ranges

GroupFragments(ascii_groups) ==
  Fragments(RangesOf(OtherGroups(ascii_groups)), SimpleGroup(ascii_groups))

FragmentList(E) == GroupFragments(group_consecutive(SortedList(E)))

\* the node for the union E of two character nodes' example sets
MergedNode(E, merged) ==
  IF Len(merged) > 1 THEN Or(merged)
  ELSE IF Len(merged) = 1 THEN merged[1]
  ELSE Set(SortedList(E))

\* the fragments left as they are, no sub-collection replaced
MergeFragments_None(regex_groups) == regex_groups

\* the fragments with every sub-collection that fills a special class
\* replaced by that class
MergeFragments(regex_groups) ==
  ApplyMerges(regex_groups, SortByLenDesc(find_merged_regex(regex_groups)))

SpecialOrMerged(E, sp) ==
  IF ~IsNone(sp) THEN sp ELSE MergedNode(E, MergeFragments(FragmentList(E)))

CharUnion(E) == SpecialOrMerged(E, match_special_char_regex(E))

\* CharRegexPattern.match_char_regex: the character node for a set of
\* one-character examples, nothing for any other set of examples
match_char_regex(s) ==
  IF s.lens # {1} \/ s.chars = {} THEN NoneValue
  ELSE IF Cardinality(s.chars) = 1
       THEN CharRegexPattern(<<CHOOSE x \in s.chars : TRUE>>)
       ELSE CharUnion(s.chars)


(***************************************************************************)
(* Constructors of the occurrence quantifiers and of the sequence.         *)
(***************************************************************************)
\* OccurrenceRegexPattern.__init__: the inner pattern that gets stored
StoredInner(pattern, ex) == IF IsNone(ex) THEN pattern ELSE ex

InnerOf(pattern, s) ==
  IF s.fails THEN Raise("ValueError")
  ELSE IF s.odd THEN Raise("Unmodelled")
  ELSE StoredInner(pattern, match_char_regex(s))

OccurrenceInit(pattern) == InnerOf(pattern, Sem(pattern))

\* Optional.__init__ once the inner pattern is settled
OptionalOf(pattern, inner) ==
  IF IsErr(inner) THEN inner
  ELSE [kind |-> "Optional", regex |-> Group(pattern.regex) \o "?",
        pattern |-> inner]

Optional(pattern) ==
  IF IsErr(pattern) THEN pattern ELSE OptionalOf(pattern, OccurrenceInit(pattern))

\* Multi.__init__ once the inner pattern is settled
MultiOf(pattern, inner, match_zero) ==
  IF IsErr(inner) THEN inner
  ELSE [kind |-> "Multi",
        regex |-> Group(pattern.regex) \o (IF match_zero THEN "*" ELSE "+"),
        pattern |-> inner, match_zero |-> match_zero]

Multi(pattern, match_zero) ==
  IF IsErr(pattern) THEN pattern
  ELSE MultiOf(pattern, OccurrenceInit(pattern), match_zero)

\* the text between the braces of an Amount
AmountText(i, j, or_more) ==
  IF j # NoJ THEN ToString(i) \o "," \o ToString(j)
  ELSE IF or_more THEN ToString(i) \o ","
  ELSE ToString(i)

\* Amount(pattern, i, j, or_more); arg keeps the constructor's argument,
\* whose text the rendered text was built from
AmountOf(pattern, inner, i, j, or_more) ==
  IF IsErr(inner) THEN inner
  ELSE [kind |-> "Amount",
        regex |-> pattern.regex \o "{" \o AmountText(i, j, or_more) \o "}",
        pattern |-> inner, arg |-> pattern,
        i |-> i, j |-> j, or_more |-> or_more]

Amount(pattern, i, j, or_more) ==
  IF IsErr(pattern) THEN pattern
  ELSE AmountOf(pattern, OccurrenceInit(pattern), i, j, or_more)

is_simple(p) == p.i = 1 /\ (p.j = NoJ \/ p.j = 1) /\ ~p.or_more

is_optional(p) == p.i = 0 /\ p.j = 1

is_multi(p) == p.or_more /\ p.j = NoJ /\ (p.i = 0 \/ p.i = 1)

to_multi(p) ==
  IF is_multi(p) THEN Multi(p.pattern, p.i = 0) ELSE Raise("AssertionError")

RECURSIVE ConcatText(_)
ConcatText(s) == IF s = <<>> THEN "" ELSE Head(s).regex \o ConcatText(Tail(s))

\* LongRegexPattern(*patterns) without its assertion on the operand count
LongRegexPattern_NoAssert(patterns) ==
  IF \E k \in 1..Len(patterns) : IsErr(patterns[k])
  THEN patterns[CHOOSE k \in 1..Len(patterns) : IsErr(patterns[k])]
  ELSE [kind |-> "LongRegexPattern", regex |-> ConcatText(patterns),
        patterns |-> patterns]

\* LongRegexPattern(*patterns)
LongRegexPattern(patterns) ==
  IF ~(Len(patterns) > 1) THEN Raise("AssertionError")
  ELSE IF \E k \in 1..Len(patterns) : IsErr(patterns[k])
  THEN patterns[CHOOSE k \in 1..Len(patterns) : IsErr(patterns[k])]
  ELSE [kind |-> "LongRegexPattern", regex |-> ConcatText(patterns),
        patterns |-> patterns]


(***************************************************************************)
(* issubset: every generated example of the one fully matches the other.   *)
(* Modelled for plain nodes and alternations of plain nodes.               *)
(***************************************************************************)
RECURSIVE SubsetModelled(_)
SubsetModelled(p) ==
  \/ IsPlain(p) /\ (p.cls # "in" \/ ~ClassFails(p.body))
  \/ p.kind = "Or" /\ \A m \in p.patterns : SubsetModelled(m)

RECURSIVE Repeats(_, _)
\* the strings made of n members of E in a row
Repeats(E, n) ==
  IF n = 0 THEN {<<>>} ELSE {x \o y : x \in Repeats(E, n - 1), y \in E}

\* the examples of an Amount over a plain argument: the braces follow the
\* argument's text ungrouped, so they repeat the last character of a
\* literal and the whole of a class
AmountExamples(arg, reps) ==
  IF arg.cls = "lit"
  THEN {SubSeq(arg.body, 1, Len(arg.body) - 1) \o r :
          r \in UNION {Repeats({<<arg.body[Len(arg.body)]>>}, n) : n \in reps}}
  ELSE UNION {Repeats({<<x>> : x \in PlainExChars(arg)}, n) : n \in reps}

\* the nodes whose examples and matches are modelled: plain nodes, an
\* Optional of one, an Amount of one, and alternations of these
RECURSIVE ExamplesModelled(_)
ExamplesModelled(p) ==
  \/ SubsetModelled(p)
  \/ p.kind = "Optional" /\ SubsetModelled(p.pattern)
  \/ /\ p.kind = "Amount"
     /\ IsPlain(p.arg)
     /\ SubsetModelled(p.arg)
     /\ p.arg.cls = "lit" => Len(p.arg.body) >= 1
  \/ p.kind = "Or" /\ \A m \in p.patterns : ExamplesModelled(m)

RECURSIVE Examples(_)
\* RegexPattern.examples
Examples(p) ==
  IF p.kind = "Or" THEN UNION {Examples(m) : m \in p.patterns}
  ELSE IF p.kind = "Optional" THEN {<<>>} \cup Examples(p.pattern)
  ELSE IF p.kind = "Amount" THEN AmountExamples(p.arg, AmountReps(p))
  ELSE IF p.cls = "lit" THEN {p.body}
  ELSE {<<x>> : x \in PlainExChars(p)}

\* n is a count the braces of the Amount allow
InReps(p, n) ==
  /\ n >= p.i
  /\ p.j # NoJ => n <= p.j
  /\ (p.j = NoJ /\ ~p.or_more) => n = p.i

\* the text of an Amount over a plain argument fully matches content;
\* k is the length of the literal before its last character
AmountMatch(p, arg, k, content) ==
  IF arg.cls = "lit"
  THEN /\ Len(content) >= k
       /\ SubSeq(content, 1, k) = SubSeq(arg.body, 1, k)
       /\ \A m \in (k + 1)..Len(content) : content[m] = arg.body[k + 1]
       /\ InReps(p, Len(content) - k)
  ELSE /\ InReps(p, Len(content))
       /\ \A m \in 1..Len(content) : content[m] \in PlainReChars(arg)

RECURSIVE FullMatch(_, _)
\* RegexPattern.fullmatch(content) is not None
FullMatch(p, content) ==
  IF p.kind = "Or" THEN \E m \in p.patterns : FullMatch(m, content)
  ELSE IF p.kind = "Optional" THEN content = <<>> \/ FullMatch(p.pattern, content)
  ELSE IF p.kind = "Amount"
  THEN AmountMatch(p, p.arg, Len(p.arg.body) - 1, content)
  ELSE IF p.cls = "lit" THEN content = p.body
  ELSE Len(content) = 1 /\ content[1] \in PlainReChars(p)

\* RegexPattern.issubset
issubset(self, superset) == \A x \in Examples(self) : FullMatch(superset, x)

(***************************************************************************)
(* The quantifier ordering and list sorting.                               *)
(***************************************************************************)
\* the ordering by kind and lower bound alone, blind to or_more
Lt_LowerBoundOnly(self, other) ==
  IF self.kind = other.kind
  THEN CASE self.kind = "Multi" -> self.match_zero /\ ~other.match_zero
         [] self.kind = "Amount" -> self.i < other.i
         [] OTHER -> FALSE
  ELSE CASE self.kind = "Optional" -> TRUE
         [] self.kind = "Amount" /\ other.kind = "Optional" -> FALSE
         [] self.kind = "Amount" /\ other.kind = "Multi" -> TRUE
         [] OTHER -> FALSE

\* OccurrenceRegexPattern.__lt__ for two quantifiers over one inner pattern
Lt(self, other) ==
  IF self.kind = other.kind
  THEN CASE self.kind = "Multi" -> self.match_zero /\ ~other.match_zero
         [] self.kind = "Amount" ->
              (other.or_more /\ ~self.or_more) \/ self.i < other.i
         [] OTHER -> FALSE
  ELSE CASE self.kind = "Optional" -> TRUE
         [] self.kind = "Amount" /\ other.kind = "Optional" -> FALSE
         [] self.kind = "Amount" /\ other.kind = "Multi" -> TRUE
         [] OTHER -> FALSE

RECURSIVE RunEnd(_, _, _)
\* list.sort's count_run: the end of the initial run
RunEnd(s, k, desc) ==
  IF k + 1 <= Len(s) /\ (Lt(s[k + 1], s[k]) <=> desc)
  THEN RunEnd(s, k + 1, desc) ELSE k

RECURSIVE BinPos(_, _, _, _)
\* list.sort's binarysort: where the pivot goes in the sorted prefix t
BinPos(t, pivot, l, r) ==
  IF l < r
  THEN LET m == l + ((r - l) \div 2)
       IN IF Lt(pivot, t[m + 1]) THEN BinPos(t, pivot, l, m)
          ELSE BinPos(t, pivot, m + 1, r)
  ELSE l

RECURSIVE BinarySort(_, _)
BinarySort(t, rest) ==
  IF rest = <<>> THEN t
  ELSE LET pos == BinPos(t, Head(rest), 0, Len(t))
       IN BinarySort(SubSeq(t, 1, pos) \o <<Head(rest)>> \o SubSeq(t, pos + 1, Len(t)),
                     Tail(rest))

\* sorted(list) of quantifiers, as list.sort orders fewer than 64 elements
Sorted(s) ==
  IF Len(s) < 2 THEN s
  ELSE LET desc == Lt(s[2], s[1])
           n == RunEnd(s, 2, desc)
           run == IF desc THEN Reverse(SubSeq(s, 1, n)) ELSE SubSeq(s, 1, n)
       IN BinarySort(run, SubSeq(s, n + 1, Len(s)))

\* a boolean returned by a comparison
PyBool(v) == [kind |-> "bool", regex |-> "", value |-> v]

\* OccurrenceRegexPattern.__lt__ without its assertion on the inner patterns
OccurrenceRegexPattern_lt_NoAssert(self, other) == PyBool(Lt(self, other))

\* OccurrenceRegexPattern.__lt__: self < other
OccurrenceRegexPattern_lt(self, other) ==
  IF ~PyEq(self.pattern, other.pattern) THEN Raise("AssertionError")
  ELSE PyBool(Lt(self, other))


(***************************************************************************)
(* Union (|).  d counts the nested calls still allowed: the interpreter    *)
(* raises RecursionError when its call depth is exhausted.                 *)
(***************************************************************************)
RECURSIVE PyOr(_, _, _)
RECURSIVE Reduce(_, _, _)
RECURSIVE MergeMapping(_, _, _, _)

\* reduce(lambda x, y: x | y, list)
Reduce(acc, list, d) ==
  IF list = <<>> THEN acc ELSE Reduce(PyOr(acc, Head(list), d), Tail(list), d)

\* reduce_regex_list(regex_list, mapping)
reduce_regex_list(regex_list, mapping) ==
  ApplyMerges(regex_list, SortByLenDesc(mapping))

\* Set(*list(union_examples)): the examples in the set's iteration order
SetOfExamples(E) ==
  LET singles == {x \in E : Len(x) = 1}
      chars == Permute(SortedList({x[1] : x \in singles}), hashSeed - 1)
      others == SetToSeq(E \ singles)
  IN Set(chars \o Flatten(Permute(others, hashSeed - 1)))

\* CharRegexPattern.__or__
CharRegexPattern_or(self, other, d) ==
  IF IsCharRegexPattern(other)
  THEN IF Sem(self).fails \/ Sem(other).fails THEN Raise("ValueError")
       ELSE IF Sem(self).lens # {1} \/ Sem(other).lens # {1} THEN Raise("TypeError")
       ELSE CharUnion(PlainExChars(self) \cup PlainExChars(other))
  ELSE IF other.kind = "Or"
  THEN IF \A m \in other.patterns : IsCharRegexPattern(m)
       THEN IF other.patterns = {} THEN Raise("TypeError")
            ELSE IF \E m \in other.patterns : Sem(m).fails THEN Raise("ValueError")
            ELSE PyOr(self, SetOfExamples(UNION {Examples(m) : m \in other.patterns}), d)
       ELSE Or(<<self, other>>)
  ELSE Or(<<self, other>>)

\* the pairs of Or.__or__ whose union is a single node, in insertion order;
\* an exception raised by a union ends the search
\* one pair of the double loop, rest being what the later pairs give
MergePair(left_pattern, right_pattern, union_pattern, rest) ==
  IF PyEq(left_pattern, right_pattern) THEN rest
  ELSE IF IsErr(union_pattern) THEN <<union_pattern>>
  ELSE IF union_pattern.kind = "Or" THEN rest
  ELSE IF rest # <<>> /\ IsErr(rest[1]) THEN rest
  ELSE <<[kind |-> "Entry", key |-> <<left_pattern, right_pattern>>,
          regex |-> union_pattern]>> \o rest

MergeMapping(lefts, rights, k, d) ==
  IF k > Len(lefts) * Len(rights) THEN <<>>
  ELSE MergePair(lefts[((k - 1) \div Len(rights)) + 1],
                 rights[((k - 1) % Len(rights)) + 1],
                 PyOr(lefts[((k - 1) \div Len(rights)) + 1],
                      rights[((k - 1) % Len(rights)) + 1], d),
                 MergeMapping(lefts, rights, k + 1, d))

\* Or.__or__
\* the Or of the members left once the mergeable pairs are replaced
OrOfReduced(regex_groups, merge_mapping) ==
  IF merge_mapping # <<>> /\ IsErr(merge_mapping[1]) THEN merge_mapping[1]
  ELSE Or(IterSet(PySetOfSeq(reduce_regex_list(regex_groups, merge_mapping))))

Or_or(self, other, d) ==
  IF other.kind = "Or"
  THEN OrOfReduced(IterSet(PySetUnion(self.patterns, other.patterns)),
                   MergeMapping(IterSet(self.patterns), IterSet(other.patterns), 1, d))
  ELSE PyOr(other, self, d)

\* OccurrenceRegexPattern.__or__
\* the members that are quantifiers over self's inner pattern
TargetPatterns(self, patterns) ==
  LET is_target(p) == IsOccurrence(p) /\ PyEq(p.pattern, self.pattern)
  IN SelectSeq(IterSet(patterns), is_target)

ReduceSorted(sorted_targets, d) ==
  Reduce(Head(sorted_targets), Tail(sorted_targets), d)

\* the merged quantifier put back among the other members
OrWithRest(non_target_patterns, reduced_pattern) ==
  IF IsErr(reduced_pattern) THEN reduced_pattern
  ELSE IF non_target_patterns # <<>>
  THEN IF IsOccurrence(reduced_pattern)
       THEN Or(IterSet(PySetOfSeq(Append(non_target_patterns, reduced_pattern))))
       ELSE IF reduced_pattern.kind = "Or" THEN Raise("TypeError")
       ELSE Raise("UnboundLocalError")
  ELSE reduced_pattern

MergeTargets(patterns, target_patterns, d) ==
  OrWithRest(IterSet(PySetMinus(patterns, PySetOfSeq(target_patterns))),
             ReduceSorted(Sorted(target_patterns), d))

MergeInto(self, patterns, d) ==
  MergeTargets(patterns, TargetPatterns(self, patterns), d)

OccurrenceRegexPattern_or(self, other, d) ==
  IF other.kind # "Or" THEN Raise("AssertionError")
  ELSE MergeInto(self, PySetOfSeq(IterSet(other.patterns) \o <<self>>), d)

\* Optional.__or__
\* self.pattern == other.pattern
SameInner(self, other) == PyEq(self.pattern, other.pattern)

\* Optional(self.pattern | other.pattern)
OptionalOfBoth(self, other, d) == Optional(PyOr(self.pattern, other.pattern, d))

\* the fall-through result with the right operand dropped
Keep_SelfOnly(self, other) == self

\* Or(self, other): the operands kept side by side
Keep(self, other) == Or(<<self, other>>)

Optional_or(self, other, d) ==
  CASE other.kind = "Or" -> OccurrenceRegexPattern_or(self, other, d)
    [] other.kind = "Optional" ->
         IF SameInner(self, other) THEN self ELSE OptionalOfBoth(self, other, d)
    [] other.kind = "Multi" ->
         IF SameInner(self, other) THEN Multi(self.pattern, TRUE) ELSE Keep(self, other)
    [] other.kind = "Amount" ->
         IF SameInner(self, other)
         THEN IF ~other.or_more /\ other.j # NoJ
              THEN IF other.j < 2 THEN self
                   ELSE IF other.i <= 2 THEN Amount(self.pattern, 0, other.j, FALSE)
                   ELSE Keep(self, other)
              ELSE IF ~other.or_more /\ other.j = NoJ
              THEN IF other.i < 2 THEN self
                   ELSE IF other.i = 2 THEN Amount(self.pattern, 0, 2, FALSE)
                   ELSE Keep(self, other)
              ELSE IF other.i <= 2 THEN Multi(self.pattern, TRUE)
              ELSE Keep(self, other)
         ELSE IF other.i = 0 /\ other.j = 1 /\ ~other.or_more
         THEN OptionalOfBoth(self, other, d)
         ELSE IF other.i = 1 /\ other.j = NoJ /\ ~other.or_more
         THEN OptionalOfBoth(self, other, d)
         ELSE Keep(self, other)
    [] other.kind \in {"RegexPattern", "CharRegexPattern"} ->
         IF PyEq(self.pattern, other) THEN self
         ELSE Optional(PyOr(self.pattern, other, d))
    [] OTHER -> Keep(self, other)

\* Multi.__or__
\* whether issubset is modelled for both inner patterns
InnersModelled(self, other) ==
  SubsetModelled(self.pattern) /\ SubsetModelled(other.pattern)

Multi_or(self, other, d) ==
  CASE other.kind = "Or" -> OccurrenceRegexPattern_or(self, other, d)
    [] other.kind = "Optional" -> PyOr(other, self, d)
    [] other.kind = "Multi" ->
         IF SameInner(self, other)
         THEN Multi(self.pattern, self.match_zero \/ other.match_zero)
         ELSE IF ~InnersModelled(self, other) THEN Raise("Unmodelled")
         ELSE IF issubset(other.pattern, self.pattern)
         THEN Multi(self.pattern, self.match_zero \/ other.match_zero)
         ELSE IF issubset(self.pattern, other.pattern)
         THEN Multi(other.pattern, self.match_zero \/ other.match_zero)
         ELSE Keep(self, other)
    [] other.kind = "Amount" ->
         IF SameInner(self, other)
         THEN IF self.match_zero THEN self
              ELSE IF other.i = 0 THEN Multi(self.pattern, TRUE)
              ELSE Multi(self.pattern, FALSE)
         ELSE IF ~InnersModelled(self, other) THEN Raise("Unmodelled")
         ELSE IF issubset(other.pattern, self.pattern)
                 /\ (self.match_zero \/ other.i >= 1) THEN self
         ELSE IF is_multi(other) THEN PyOr(self, to_multi(other), d)
         ELSE Keep(self, other)
    [] OTHER -> Keep(self, other)

\* Amount.__or__ for another Amount over the same inner pattern
\* min(self.i, other.i)
Lower(self, other) == IF self.i < other.i THEN self.i ELSE other.i

\* max(self.j, other.j)
Upper(self, other) == IF self.j > other.j THEN self.j ELSE other.j

\* a "{i,}" result, as a Multi when it is "*" or "+"
Canon(p) == IF is_multi(p) THEN to_multi(p) ELSE p

\* Amount(self.pattern, min(i), or_more=True)
OrMore(self, other) == Canon(Amount(self.pattern, Lower(self, other), NoJ, TRUE))

AmountSame(self, other) ==
  IF self.j # NoJ
  THEN IF other.j # NoJ
       THEN IF (self.i..self.j) \cap (other.i..other.j) # {}
            THEN Amount(self.pattern, Lower(self, other), Upper(self, other), FALSE)
            ELSE Keep(self, other)
       ELSE IF other.or_more
       THEN IF other.i <= self.j THEN OrMore(self, other) ELSE Keep(self, other)
       ELSE IF self.i <= other.i /\ other.i <= self.j THEN self ELSE Keep(self, other)
  ELSE IF self.or_more
  THEN IF other.j # NoJ
       THEN IF self.i <= other.j THEN OrMore(self, other) ELSE Keep(self, other)
       ELSE IF other.or_more THEN OrMore(self, other)
       ELSE IF other.i >= self.i THEN self ELSE Keep(self, other)
  ELSE IF other.j # NoJ
       THEN IF other.i <= self.i /\ self.i <= other.j THEN other ELSE Keep(self, other)
       ELSE IF other.or_more
       THEN IF other.i <= self.i THEN Canon(other) ELSE Keep(self, other)
       ELSE IF self.i = other.i THEN self ELSE Keep(self, other)

\* Amount.__or__
Amount_or(self, other, d) ==
  CASE other.kind = "Or" -> OccurrenceRegexPattern_or(self, other, d)
    [] IsCharRegexPattern(other) -> PyOr(other, self, d)
    [] other.kind = "Optional" -> PyOr(other, self, d)
    [] other.kind = "Multi" -> PyOr(other, self, d)
    [] other.kind = "Amount" ->
         IF SameInner(self, other) THEN AmountSame(self, other)
         ELSE IF self.i = other.i /\ self.j = other.j /\ self.or_more = other.or_more
         THEN IF ~InnersModelled(self, other) THEN Raise("Unmodelled")
              ELSE IF issubset(other.pattern, self.pattern) THEN self
              ELSE IF issubset(self.pattern, other.pattern) THEN other
              ELSE IF is_simple(self) /\ is_simple(other)
              THEN PyOr(self.pattern, other.pattern, d)
              ELSE IF is_optional(self) /\ is_optional(other)
              THEN OptionalOfBoth(self, other, d)
              ELSE Keep(self, other)
         ELSE IF (is_optional(self) /\ is_simple(other))
                 \/ (is_simple(self) /\ is_optional(other))
         THEN OptionalOfBoth(self, other, d)
         ELSE Keep(self, other)
    [] OTHER ->
         IF is_simple(self) /\ PyEq(self.pattern, other) THEN other
         ELSE IF ~is_simple(self) /\ PyEq(self.pattern, other)
         THEN PyOr(self, Amount(other, 1, NoJ, FALSE), d)
         ELSE Keep(self, other)

\* RegexPattern.__or__
RegexPattern_or(self, other, d) ==
  IF PyEq(self, other) THEN self
  ELSE IF IsCompositional(other) \/ IsCharRegexPattern(other) THEN PyOr(other, self, d)
  ELSE Or(<<self, other>>)

\* x | y: the __or__ of x's class
PyOr(x, y, d) ==
  IF IsErr(x) THEN x
  ELSE IF IsErr(y) THEN y
  ELSE IF d = 0 THEN Raise("RecursionError")
  ELSE CASE x.kind = "Or" -> Or_or(x, y, d - 1)
         [] x.kind = "Optional" -> Optional_or(x, y, d - 1)
         [] x.kind = "Multi" -> Multi_or(x, y, d - 1)
         [] x.kind = "Amount" -> Amount_or(x, y, d - 1)
         [] IsCharRegexPattern(x) -> CharRegexPattern_or(x, y, d - 1)
         [] OTHER -> RegexPattern_or(x, y, d - 1)

\* nested calls allowed before RecursionError
MaxDepth == 12

Union(x, y) == PyOr(x, y, MaxDepth)


(***************************************************************************)
(* Concatenation (+).                                                      *)
(***************************************************************************)
RECURSIVE PyAdd(_, _)

\* RegexPattern.__add__ without its branch for equal operands
RegexPattern_add_NoSquare(self, other) ==
  IF IsOccurrence(other) /\ PyEq(self, other.pattern)
  THEN IF other.kind = "Optional" THEN Amount(self, 1, 2, FALSE)
       ELSE IF other.kind = "Multi"
       THEN IF other.match_zero THEN Multi(self, FALSE)
            ELSE Amount(self, 2, NoJ, TRUE)
       ELSE Amount(self, other.i + 1, other.j, other.or_more)
  ELSE IF other.kind = "LongRegexPattern"
  THEN LongRegexPattern(<<self>> \o other.patterns)
  ELSE LongRegexPattern(<<self, other>>)

\* RegexPattern.__add__ for a RegexPattern operand
RegexPattern_add(self, other) ==
  IF PyEq(self, other) THEN Amount(self, 2, NoJ, FALSE)
  ELSE IF IsOccurrence(other) /\ PyEq(self, other.pattern)
  THEN IF other.kind = "Optional" THEN Amount(self, 1, 2, FALSE)
       ELSE IF other.kind = "Multi"
       THEN IF other.match_zero THEN Multi(self, FALSE)
            ELSE Amount(self, 2, NoJ, TRUE)
       ELSE Amount(self, other.i + 1, other.j, other.or_more)
  ELSE IF other.kind = "LongRegexPattern"
  THEN LongRegexPattern(<<self>> \o other.patterns)
  ELSE LongRegexPattern(<<self, other>>)

\* LongRegexPattern(list): the list is passed as the only operand
LongOfList(list) == LongRegexPattern(<<list>>)

\* LongRegexPattern.__add__
\* left: what stays of self before its last member
LeftOf(self, front) ==
  IF Len(front) > 1 THEN LongOfList(front)
  ELSE IF Len(front) = 1 THEN self.patterns[1]
  ELSE Raise("UnboundLocalError")

\* right: what stays of other after its first member
RightOf(self, other, back) ==
  IF Len(back) > 1 THEN LongOfList(back)
  ELSE IF Len(Tail(self.patterns)) = 1 THEN other.patterns[Len(other.patterns)]
  ELSE Raise("UnboundLocalError")

\* the branch for a LongRegexPattern operand
LongAddLong(self, other, left, touch_merged, right) ==
  IF PyEq(self, other) THEN Amount(self, 2, NoJ, FALSE)
  ELSE IF IsErr(touch_merged) THEN touch_merged
  ELSE IF touch_merged.kind # "LongRegexPattern"
  THEN IF IsErr(left) THEN left
       ELSE IF IsErr(right) /\ right.err = "AssertionError" THEN right
       ELSE PyAdd(PyAdd(left, touch_merged), right)
  ELSE LongRegexPattern(self.patterns \o other.patterns)

\* the branch for any other operand
LongAddOne(self, other, left, touch_merged) ==
  IF IsErr(touch_merged) THEN touch_merged
  ELSE IF touch_merged.kind # "LongRegexPattern" THEN PyAdd(left, touch_merged)
  ELSE LongRegexPattern(Append(self.patterns, other))

LongRegexPattern_add(self, other) ==
  IF other.kind = "LongRegexPattern"
  THEN LongAddLong(self, other,
                   LeftOf(self, SubSeq(self.patterns, 1, Len(self.patterns) - 1)),
                   PyAdd(self.patterns[Len(self.patterns)], other.patterns[1]),
                   RightOf(self, other, Tail(other.patterns)))
  ELSE LongAddOne(self, other,
                  LeftOf(self, SubSeq(self.patterns, 1, Len(self.patterns) - 1)),
                  PyAdd(self.patterns[Len(self.patterns)], other))

\* x + y: the __add__ of x's class
PyAdd(x, y) ==
  IF IsErr(x) THEN x
  ELSE IF IsErr(y) THEN y
  ELSE IF x.kind = "LongRegexPattern" THEN LongRegexPattern_add(x, y)
  ELSE RegexPattern_add(x, y)


(***************************************************************************)
(* The inputs: nodes built with the constructors above.                    *)
(***************************************************************************)
\* occurrence counts given to Amount: j is absent or at least i, and
\* or_more comes without j
AmountArgs ==
  {<<i, j, m>> \in (0..MaxCount) \X ({NoJ} \cup (0..MaxCount)) \X BOOLEAN :
     (j = NoJ \/ (j >= i /\ ~m))}

Quantifiers(p) ==
  {Optional(p), Multi(p, FALSE), Multi(p, TRUE)}
  \cup {Amount(p, t[1], t[2], t[3]) : t \in AmountArgs}

BaseInputs == {RegexPattern(<<97>>), RegexPattern(<<97, 98>>), RegexPattern(<<49>>)}

CharInputs ==
  {CharRegexPattern(<<49>>), CharRegexPattern(<<97>>), ANY, DIGIT, WORD, WHITESPACE,
   Range(48, 52), Range(51, 57), Range(55, 57), Range(52, 55), Range(48, 49),
   Set(<<97>>), Set(<<98>>), Set(<<97, 98>>), Set(<<98, 97>>),
   NotSet(<<97>>), NotSet(<<98>>), Set(<<43>>), Set(<<45, 48>>)}

\* the inner patterns the input quantifiers range over
InnerInputs == {RegexPattern(<<97>>), Set(<<97, 98>>), Set(<<98>>), RegexPattern(<<97, 98>>)}

QuantifierInputs == UNION {Quantifiers(p) : p \in InnerInputs}

OrInputs ==
  {Or(<<Range(48, 52), Range(55, 57)>>),
   Or(<<Range(49, 52), Set(<<97, 98>>)>>),
   Or(<<Set(<<97>>), Set(<<98>>)>>),
   Or(<<Set(<<43>>), Set(<<45, 48>>)>>),
   Or(<<RegexPattern(<<97, 98>>), RegexPattern(<<49, 50>>)>>),
   Or(<<Amount(RegexPattern(<<97>>), 2, NoJ, FALSE), Range(48, 52)>>),
   Or(<<Optional(RegexPattern(<<97>>)), Amount(RegexPattern(<<97>>), 3, NoJ, FALSE)>>)}

LongInputs ==
  {LongRegexPattern(<<CharRegexPattern(<<97>>), CharRegexPattern(<<98>>)>>),
   LongRegexPattern(<<CharRegexPattern(<<98>>), CharRegexPattern(<<99>>)>>),
   LongRegexPattern(<<CharRegexPattern(<<97>>), CharRegexPattern(<<98>>),
                      CharRegexPattern(<<99>>)>>)}

Inputs == BaseInputs \cup CharInputs \cup QuantifierInputs \cup OrInputs \cup LongInputs

\* the operands of the concatenation runs
AddInputs ==
  {DIGIT, CharRegexPattern(<<97>>), CharRegexPattern(<<98>>), RegexPattern(<<97>>),
   Optional(CharRegexPattern(<<97>>)), Multi(CharRegexPattern(<<97>>), FALSE),
   Multi(CharRegexPattern(<<97>>), TRUE)}
  \cup {Amount(CharRegexPattern(<<97>>), t[1], t[2], t[3]) :
          t \in {u \in AmountArgs : u[1] >= 1 /\ u[1] <= 2}}
  \cup LongInputs
  \cup {LongRegexPattern(<<CharRegexPattern(<<99>>), CharRegexPattern(<<97>>)>>),
        LongRegexPattern(<<CharRegexPattern(<<98>>), CharRegexPattern(<<99>>),
                           CharRegexPattern(<<97>>)>>)}

(***************************************************************************)
(* The runs: the operands are drawn first, then the operators are applied  *)
(* to them, one call a step.                                               *)
(***************************************************************************)
TypeOK == op \in {"init", "or", "ro", "add", "added", "dda", "dded", "long", "longadd",
                  "lt", "tl", "examples", "subset", "combos", "ways", "eq", "hash",
                  "reducing", "reduced", "united", "joined"}

Init ==
  /\ a \in Inputs
  /\ b \in Inputs
  /\ c = NoneValue
  /\ out = [left |-> NoneValue, right |-> NoneValue]
  /\ op = "init"
  /\ hashSeed \in 1..MaxSeed

\* out = a | b
UnionAB ==
  /\ op = "init"
  /\ IsNone(c)
  /\ out' = [out EXCEPT !.left = Union(a, b)]
  /\ op' = "or"
  /\ UNCHANGED <<a, b, c, hashSeed>>

\* then b | a
UnionBA ==
  /\ op = "or"
  /\ out' = [out EXCEPT !.right = Union(b, a)]
  /\ op' = "ro"
  /\ UNCHANGED <<a, b, c, hashSeed>>

Next == UnionAB \/ UnionBA

Spec == Init /\ [][Next]_vars

(***************************************************************************)
(* The concatenation runs: three operands, grouped to the left and to the  *)
(* right.                                                                  *)
(***************************************************************************)
InitAdd ==
  /\ a \in AddInputs
  /\ b \in AddInputs
  /\ c \in AddInputs
  /\ out = [left |-> NoneValue, right |-> NoneValue]
  /\ op = "init"
  /\ hashSeed \in 1..MaxSeed

\* a + b
AddAB ==
  /\ op = "init"
  /\ ~IsNone(c)
  /\ out' = [out EXCEPT !.left = PyAdd(a, b)]
  /\ op' = "add"
  /\ UNCHANGED <<a, b, c, hashSeed>>

\* (a + b) + c
AddABthenC ==
  /\ op = "add"
  /\ out' = [out EXCEPT !.left = PyAdd(out.left, c)]
  /\ op' = "added"
  /\ UNCHANGED <<a, b, c, hashSeed>>

\* b + c
AddBC ==
  /\ op = "added"
  /\ out' = [out EXCEPT !.right = PyAdd(b, c)]
  /\ op' = "dda"
  /\ UNCHANGED <<a, b, c, hashSeed>>

\* a + (b + c)
AddAthenBC ==
  /\ op = "dda"
  /\ out' = [out EXCEPT !.right = PyAdd(a, out.right)]
  /\ op' = "dded"
  /\ UNCHANGED <<a, b, c, hashSeed>>

NextAdd == AddAB \/ AddABthenC \/ AddBC \/ AddAthenBC

SpecAdd == InitAdd /\ [][NextAdd]_vars

(***************************************************************************)
(* The construction runs: a concatenation sequence is built from a list of *)
(* operands, then one more pattern is concatenated to it.                  *)
(***************************************************************************)
\* the longest operand list given to the constructor
MaxLen == 3

LongElems ==
  {CharRegexPattern(<<97>>), CharRegexPattern(<<98>>), CharRegexPattern(<<99>>), DIGIT}

RECURSIVE SeqsUpTo(_, _)
SeqsUpTo(S, n) ==
  IF n = 0 THEN {<<>>}
  ELSE SeqsUpTo(S, n - 1)
       \cup {Append(s, x) : s \in {t \in SeqsUpTo(S, n - 1) : Len(t) = n - 1}, x \in S}

InitLong ==
  /\ a \in SeqsUpTo(LongElems, MaxLen)
  /\ b \in LongElems
  /\ c = NoneValue
  /\ out = [left |-> NoneValue, right |-> NoneValue]
  /\ op = "init"
  /\ hashSeed = 1

\* LongRegexPattern(*a)
Construct ==
  /\ op = "init"
  /\ IsNone(c)
  /\ out' = [out EXCEPT !.left = LongRegexPattern(a)]
  /\ op' = "long"
  /\ UNCHANGED <<a, b, c, hashSeed>>

\* LongRegexPattern(*a) + b
ConstructThenAdd ==
  /\ op = "long"
  /\ ~IsErr(out.left)
  /\ out' = [out EXCEPT !.right = PyAdd(out.left, b)]
  /\ op' = "longadd"
  /\ UNCHANGED <<a, b, c, hashSeed>>

NextLong == Construct \/ ConstructThenAdd

SpecLong == InitLong /\ [][NextLong]_vars

(***************************************************************************)
(* The comparison runs: two quantifiers are compared with <, in both       *)
(* orders.                                                                 *)
(***************************************************************************)
InitLt ==
  /\ a \in QuantifierInputs
  /\ b \in QuantifierInputs
  /\ c = NoneValue
  /\ out = [left |-> NoneValue, right |-> NoneValue]
  /\ op = "init"
  /\ hashSeed = 1

\* a < b
CompareAB ==
  /\ op = "init"
  /\ IsNone(c)
  /\ out' = [out EXCEPT !.left = OccurrenceRegexPattern_lt(a, b)]
  /\ op' = "lt"
  /\ UNCHANGED <<a, b, c, hashSeed>>

\* b < a
CompareBA ==
  /\ op = "lt"
  /\ out' = [out EXCEPT !.right = OccurrenceRegexPattern_lt(b, a)]
  /\ op' = "tl"
  /\ UNCHANGED <<a, b, c, hashSeed>>

NextLt == CompareAB \/ CompareBA

SpecLt == InitLt /\ [][NextLt]_vars

(***************************************************************************)
(* The oracle runs: the examples of one node are generated, then the node  *)
(* is tested for being a subset of another.                                *)
(***************************************************************************)
\* a set of strings returned by examples
PySet(S) == [kind |-> "set", regex |-> "", items |-> S]

ExInners == {RegexPattern(<<97>>), RegexPattern(<<97, 98>>), Set(<<97, 98>>)}

\* the bounded quantifiers over p
BoundedQuantifiers(p) ==
  {Optional(p)}
  \cup {Amount(p, t[1], t[2], t[3]) : t \in {u \in AmountArgs : ~u[3]}}

ExInputs ==
  ExInners
  \cup UNION {BoundedQuantifiers(p) : p \in ExInners}
  \cup {Or(<<Set(<<97>>), Set(<<98>>)>>),
        Or(<<DIGIT, Amount(RegexPattern(<<97>>), 1, 3, FALSE)>>),
        Or(<<Optional(RegexPattern(<<97>>)), Set(<<97, 98>>)>>)}

InitEx ==
  /\ a \in ExInputs
  /\ b \in ExInputs
  /\ c = NoneValue
  /\ out = [left |-> NoneValue, right |-> NoneValue]
  /\ op = "init"
  /\ hashSeed = 1

\* a.examples
TakeExamples ==
  /\ op = "init"
  /\ IsNone(c)
  /\ ExamplesModelled(a)
  /\ out' = [out EXCEPT !.left = PySet(Examples(a))]
  /\ op' = "examples"
  /\ UNCHANGED <<a, b, c, hashSeed>>

\* a.issubset(b)
TestSubset ==
  /\ op = "examples"
  /\ ExamplesModelled(b)
  /\ out' = [out EXCEPT !.right = PyBool(issubset(a, b))]
  /\ op' = "subset"
  /\ UNCHANGED <<a, b, c, hashSeed>>

NextEx == TakeExamples \/ TestSubset

SpecEx == InitEx /\ [][NextEx]_vars

(***************************************************************************)
(* The search runs: the sub-collections of a list of fragments are         *)
(* generated, then the merge ways of the list are looked for.              *)
(***************************************************************************)
\* the longest list of fragments searched
MaxFrags == 4

\* a list returned by a call
PyList(s) == [kind |-> "list", regex |-> "", items |-> s]

FragElems ==
  {Range(48, 53), Range(52, 57), Range(51, 55), Range(97, 100), WORD, Set(<<10>>)}

\* the lists of at most n different members of S
RECURSIVE ListsUpTo(_, _)
ListsUpTo(S, n) ==
  IF n = 0 THEN {<<>>}
  ELSE ListsUpTo(S, n - 1)
       \cup {Append(s, x) : s \in {t \in ListsUpTo(S, n - 1) : Len(t) = n - 1},
                            x \in S}

NoRepeats(s) == \A k, h \in 1..Len(s) : s[k] = s[h] => k = h

InitSearch ==
  /\ a \in {s \in ListsUpTo(FragElems, MaxFrags) : NoRepeats(s)}
  /\ b = NoneValue
  /\ c = NoneValue
  /\ out = [left |-> NoneValue, right |-> NoneValue]
  /\ op = "init"
  /\ hashSeed = 1

\* list(_combination_generate(a))
Combine ==
  /\ op = "init"
  /\ IsNone(b)
  /\ out' = [out EXCEPT !.left = PyList(combination_generate(a))]
  /\ op' = "combos"
  /\ UNCHANGED <<a, b, c, hashSeed>>

\* find_merge_ways(a, match_special_char_regex)
FindWays ==
  /\ op = "combos"
  /\ out' = [out EXCEPT !.right = PyList(find_merge_ways(a))]
  /\ op' = "ways"
  /\ UNCHANGED <<a, b, c, hashSeed>>

NextSearch == Combine \/ FindWays

SpecSearch == InitSearch /\ [][NextSearch]_vars

(***************************************************************************)
(* The comparison runs: a == b, then hash(a) and hash(b).                  *)
(***************************************************************************)
EqInputs ==
  OrInputs
  \cup {Or(<<Set(<<98>>), Set(<<97>>)>>),
        RegexPattern(<<40, 63, 58, 91, 97, 93, 41, 124, 40, 63, 58, 91, 98, 93, 41>>),
        RegexPattern(<<97>>), CharRegexPattern(<<97>>), Set(<<97>>), Set(<<98>>),
        Range(48, 52)}

InitEq ==
  /\ a \in EqInputs
  /\ b \in EqInputs
  /\ c = NoneValue
  /\ out = [left |-> NoneValue, right |-> NoneValue]
  /\ op = "init"
  /\ hashSeed = 1

\* a == b
Equals ==
  /\ op = "init"
  /\ out' = [out EXCEPT !.left = PyBool(PyEq(a, b))]
  /\ op' = "eq"
  /\ UNCHANGED <<a, b, c, hashSeed>>

\* hash(a), hash(b)
Hashes ==
  /\ op = "eq"
  /\ out' = [out EXCEPT !.right = [kind |-> "hashes", regex |-> "",
                                   of_a |-> Hash(a), of_b |-> Hash(b)]]
  /\ op' = "hash"
  /\ UNCHANGED <<a, b, c, hashSeed>>

NextEq == Equals \/ Hashes

SpecEq == InitEq /\ [][NextEq]_vars

(***************************************************************************)
(* reduce_regex_list step by step, on a list of fragments and the merge    *)
(* ways found for it, then the union and the concatenation of the list's   *)
(* first two members.  A list the function works on is held with a mark    *)
(* telling whether it is the caller's own list object: a write to a shared *)
(* list is a write to the caller's list.                                   *)
(***************************************************************************)
\* regex_list itself, not a copy
deepcopy_Alias(x) == [obj |-> x, shared |-> TRUE]

\* copy.deepcopy(x): a new object with the same value
deepcopy(x) == [obj |-> x, shared |-> FALSE]

\* the locals of reduce_regex_list
ReduceLocals(regex_list, merged_regex_from_list) ==
  [kind |-> "locals", regex |-> "", regex_list |-> regex_list,
   merged_regex_from_list |-> merged_regex_from_list]

\* one pass of its loop: the members of the key are removed from the list
\* and the mapped node appended, when the list holds them all
Replaced(list, w) ==
  IF \A k \in 1..Len(w.key) : KeyInList(w.key[k], list)
  THEN Append(RemoveAll(list, w.key), w.regex)
  ELSE list

InitFrame ==
  /\ a \in {s \in ListsUpTo(FragElems, MaxFrags) : NoRepeats(s)}
  /\ b = PyList(find_merge_ways(a))
  /\ c = NoneValue
  /\ out = [left |-> NoneValue, right |-> NoneValue]
  /\ op = "init"
  /\ hashSeed = 1

\* reduce_regex_list(a, b) up to its loop
EnterReduce ==
  /\ op = "init"
  /\ IsNone(c)
  /\ c' = ReduceLocals(deepcopy(a), SortByLenDesc(deepcopy(b.items).obj))
  /\ op' = "reducing"
  /\ UNCHANGED <<a, b, out, hashSeed>>

\* one pass of the loop
ReplaceStep ==
  /\ op = "reducing"
  /\ c.merged_regex_from_list # <<>>
  /\ c' = [c EXCEPT
             !.regex_list.obj = Replaced(@, Head(c.merged_regex_from_list)),
             !.merged_regex_from_list = Tail(@)]
  /\ a' = IF c.regex_list.shared
          THEN Replaced(c.regex_list.obj, Head(c.merged_regex_from_list))
          ELSE a
  /\ UNCHANGED <<b, out, op, hashSeed>>

\* return _regex_list
ReturnList ==
  /\ op = "reducing"
  /\ c.merged_regex_from_list = <<>>
  /\ out' = [out EXCEPT !.left = PyList(c.regex_list.obj)]
  /\ op' = "reduced"
  /\ UNCHANGED <<a, b, c, hashSeed>>

\* a[0] | a[1]
UniteMembers ==
  /\ op = "reduced"
  /\ Len(a) >= 2
  /\ out' = [out EXCEPT !.right = Union(a[1], a[2])]
  /\ op' = "united"
  /\ UNCHANGED <<a, b, c, hashSeed>>

\* a[0] + a[1]
JoinMembers ==
  /\ op = "united"
  /\ out' = [out EXCEPT !.right = PyAdd(a[1], a[2])]
  /\ op' = "joined"
  /\ UNCHANGED <<a, b, c, hashSeed>>

NextFrame == EnterReduce \/ ReplaceStep \/ ReturnList \/ UniteMembers \/ JoinMembers

SpecFrame == InitFrame /\ [][NextFrame]_vars

(***************************************************************************)
(* The claims.                                                             *)
(***************************************************************************)
\* C1: union is idempotent: for a pattern p of any node kind, p | p
\* returns a node equal to p.
C1_UnionIdempotent ==
  (op = "or" /\ a = b) => (~IsErr(out.left) /\ PyEq(out.left, a))

\* C2: union is commutative: a | b equals b | a, two Or results compared
\* by their member sets and any other results by rendered text.
C2_UnionCommutative ==
  op = "ro" => (~IsErr(out.left) /\ ~IsErr(out.right) /\ PyEq(out.left, out.right))

\* C3: concatenation is associative: (a + b) + c renders to the same text
\* as a + (b + c).
C3_ConcatAssociative ==
  op = "dded" =>
    (~IsErr(out.left) /\ ~IsErr(out.right) /\ out.left.regex = out.right.regex)

\* the one-character strings a character node or an Or of character nodes
\* generates, as code points
CharsOf(p) == {x[1] : x \in Examples(p)}

\* an operand of the character union with examples to generate
IsCharOperand(p) == IsCharRegexPattern(p) /\ ~Sem(p).fails /\ Sem(p).lens = {1}

\* an Or whose members are all character nodes
IsCharOr(p) ==
  /\ p.kind = "Or"
  /\ p.patterns # {}
  /\ \A m \in p.patterns : IsCharOperand(m)

\* C4: for two character patterns a and b, the node a | b accepts exactly
\* examples(a) \cup examples(b): no character is lost and none is added.
C4_CharUnionExact ==
  (op = "or" /\ IsCharOperand(a) /\ IsCharOperand(b)) =>
    /\ ~IsErr(out.left)
    /\ SubsetModelled(out.left)
    /\ CharsOf(out.left) = CharsOf(a) \cup CharsOf(b)

\* C5: when the combined character set of a character pattern and another
\* character pattern (or an Or of character patterns) equals the set of
\* ANY, DIGIT, WORD or WHITESPACE, the union is that canonical class node.
C5_CanonicalClassFirst ==
  (op = "or" /\ IsCharOperand(a) /\ (IsCharOperand(b) \/ IsCharOr(b))) =>
    \A k \in 1..Len(SpecialChars) :
      CharsOf(a) \cup CharsOf(b) = CharsOf(SpecialChars[k]) => out.left = SpecialChars[k]

\* the occurrence interval of a quantifier: its lowest count, whether it
\* has no highest count, and its highest count when it has one
QLow(q) ==
  CASE q.kind = "Optional" -> 0
    [] q.kind = "Multi" -> IF q.match_zero THEN 0 ELSE 1
    [] OTHER -> q.i

QUnbounded(q) == q.kind = "Multi" \/ (q.kind = "Amount" /\ q.j = NoJ /\ q.or_more)

QHigh(q) ==
  CASE q.kind = "Optional" -> 1
    [] q.kind = "Amount" /\ q.j # NoJ -> q.j
    [] OTHER -> q.i

\* the intervals intersect or are adjacent: no count lies between them
Touching(x, y) ==
  /\ QUnbounded(y) \/ QLow(x) <= QHigh(y) + 1
  /\ QUnbounded(x) \/ QLow(y) <= QHigh(x) + 1

\* r is the quantifier over the inner pattern of x whose interval spans
\* the intervals of x and y
SpansBoth(r, x, y) ==
  /\ IsOccurrence(r)
  /\ PyEq(r.pattern, x.pattern)
  /\ QLow(r) = (IF QLow(x) < QLow(y) THEN QLow(x) ELSE QLow(y))
  /\ QUnbounded(r) = (QUnbounded(x) \/ QUnbounded(y))
  /\ ~QUnbounded(r) => QHigh(r) = (IF QHigh(x) > QHigh(y) THEN QHigh(x) ELSE QHigh(y))

\* two quantifiers over one inner pattern
SameInnerPair(x, y) == IsOccurrence(x) /\ IsOccurrence(y) /\ SameInner(x, y)

\* C6: two quantifiers over the same inner pattern whose intervals
\* intersect or are adjacent unite to the one quantifier spanning both
\* intervals, for every pairing of Optional, Multi and Amount.
C6_TouchingIntervalsMerge ==
  (op = "or" /\ SameInnerPair(a, b) /\ Touching(a, b)) => SpansBoth(out.left, a, b)

\* C7: two quantifiers over the same inner pattern whose intervals leave a
\* count between them are never merged: the union is an Or of exactly the
\* two operands.
C7_GappedIntervalsKept ==
  (op = "or" /\ SameInnerPair(a, b) /\ ~Touching(a, b)) =>
    /\ out.left.kind = "Or"
    /\ {Key(m) : m \in out.left.patterns} = {Key(a), Key(b)}

C7_Witness ==
  /\ op = "or"
  /\ a.kind = "Optional"
  /\ b.kind = "Amount"
  /\ SameInner(a, b)
  /\ QLow(b) = 3
  /\ out.left.kind = "Or"
  /\ Cardinality(out.left.patterns) = 2

\* the two quantifiers stand for the same occurrence interval
SameInterval(x, y) ==
  /\ QLow(x) = QLow(y)
  /\ QUnbounded(x) = QUnbounded(y)
  /\ ~QUnbounded(x) => QHigh(x) = QHigh(y)

\* two quantifiers with one interval over different inner patterns for
\* which issubset is modelled
SameIntervalPair(x, y) ==
  /\ IsOccurrence(x)
  /\ IsOccurrence(y)
  /\ ~SameInner(x, y)
  /\ SameInterval(x, y)
  /\ InnersModelled(x, y)

\* r is the quantifier with the interval of x over the inner pattern p
QuantifierOver(r, p, x) == IsOccurrence(r) /\ PyEq(r.pattern, p) /\ SameInterval(r, x)

\* C8: two quantifiers with identical interval bounds over different inner
\* patterns, one inner a subset of the other, unite to the quantifier over
\* the superset inner pattern, whichever operand is on the left.
C8_SubsetInnerAbsorbed ==
  (op = "or" /\ SameIntervalPair(a, b)) =>
    /\ (issubset(b.pattern, a.pattern) /\ ~issubset(a.pattern, b.pattern))
          => QuantifierOver(out.left, a.pattern, a)
    /\ (issubset(a.pattern, b.pattern) /\ ~issubset(b.pattern, a.pattern))
          => QuantifierOver(out.left, b.pattern, a)
    /\ (issubset(a.pattern, b.pattern) /\ issubset(b.pattern, a.pattern))
          => (QuantifierOver(out.left, a.pattern, a) \/ QuantifierOver(out.left, b.pattern, a))

\* the quantifier stands for exactly one occurrence
ExactlyOne(q) == ~QUnbounded(q) /\ QLow(q) = 1 /\ QHigh(q) = 1

\* the quantifier stands for the interval [0,1]
ZeroOrOne(q) == ~QUnbounded(q) /\ QLow(q) = 0 /\ QHigh(q) = 1

\* two quantifiers over different inner patterns, neither inner pattern
\* a subset of the other
UnrelatedPair(x, y) ==
  /\ IsOccurrence(x)
  /\ IsOccurrence(y)
  /\ ~SameInner(x, y)
  /\ InnersModelled(x, y)
  /\ ~issubset(x.pattern, y.pattern)
  /\ ~issubset(y.pattern, x.pattern)

\* C9: for quantifiers over different inner patterns, neither a subset of
\* the other: two exactly-one quantifiers unite to the union of the inner
\* patterns; two [0,1] quantifiers, or a [0,1] and an exactly-one
\* quantifier, unite to Optional of the union of the inner patterns.
C9_UnrelatedInnersUnited ==
  (op = "or" /\ UnrelatedPair(a, b)) =>
    /\ (ExactlyOne(a) /\ ExactlyOne(b))
          => PyEq(out.left, Union(a.pattern, b.pattern))
    /\ ((ZeroOrOne(a) /\ (ZeroOrOne(b) \/ ExactlyOne(b))) \/ (ExactlyOne(a) /\ ZeroOrOne(b)))
          => PyEq(out.left, Optional(Union(a.pattern, b.pattern)))

\* C10: X + X is Amount(X, 2), for a base fragment, a character pattern and
\* a whole concatenation sequence alike.
C10_SelfConcatIsAmount2 ==
  (op = "add" /\ a = b) => out.left = Amount(a, 2, NoJ, FALSE)

C10_Witness ==
  /\ op = "add"
  /\ a = b
  /\ a.kind = "LongRegexPattern"
  /\ out.left.kind = "Amount"
  /\ out.left.regex = "ab{2}"

\* the quantifier over x that X + Y is to be when Y is a quantifier over x:
\* Y with its lowest count, and its highest count when it has one, raised
\* by one
OneMore(x, y) ==
  CASE y.kind = "Optional" -> Amount(x, 1, 2, FALSE)
    [] y.kind = "Multi" ->
         IF y.match_zero THEN Multi(x, FALSE) ELSE Amount(x, 2, NoJ, TRUE)
    [] OTHER ->
         Amount(x, y.i + 1, IF y.j = NoJ THEN NoJ ELSE y.j + 1, y.or_more)

\* C11: X + Y for a quantifier Y whose inner equals X is the quantifier
\* over X with Y's lowest count raised by one, its highest count raised by
\* one when it has one, and Y's unbounded flag kept.
C11_PrependRaisesBothBounds ==
  (op = "add" /\ IsOccurrence(b) /\ PyEq(a, b.pattern)) =>
    (~IsErr(out.left) /\ PyEq(out.left, OneMore(a, b)))

\* C12: the mirrored rule: for a quantifier Q whose inner equals Y, Q + Y
\* equals Y + Q; the quantifier on the left takes in the one occurrence on
\* its right and no two-element sequence is made.
C12_AppendMirrorsPrepend ==
  (op = "add" /\ IsOccurrence(a) /\ PyEq(b, a.pattern)) =>
    /\ ~IsErr(out.left)
    /\ out.left.kind # "LongRegexPattern"
    /\ PyEq(out.left, PyAdd(b, a))

\* r is the quantifier over the inner pattern of x whose interval is the
\* sum of the intervals of x and y
SumsBoth(r, x, y) ==
  /\ IsOccurrence(r)
  /\ PyEq(r.pattern, x.pattern)
  /\ QLow(r) = QLow(x) + QLow(y)
  /\ QUnbounded(r) = (QUnbounded(x) \/ QUnbounded(y))
  /\ ~QUnbounded(r) => QHigh(r) = QHigh(x) + QHigh(y)

\* C13: concatenating two quantifiers over the same inner pattern adds
\* their occurrence intervals: [l1,h1] + [l2,h2] is the quantifier over
\* that inner with interval [l1+l2, h1+h2], unbounded if either is.
C13_QuantifiersAddIntervals ==
  (op = "add" /\ SameInnerPair(a, b)) => SumsBoth(out.left, a, b)

\* the last element of the one sequence and the first of the other merge
\* into one node
BoundaryMerges(l, r) ==
  /\ l.kind = "LongRegexPattern"
  /\ r.kind = "LongRegexPattern"
  /\ ~IsErr(PyAdd(l.patterns[Len(l.patterns)], r.patterns[1]))
  /\ PyAdd(l.patterns[Len(l.patterns)], r.patterns[1]).kind # "LongRegexPattern"

\* l without its last element, the merged node, r without its first
Spliced(l, r) ==
  LongRegexPattern(SubSeq(l.patterns, 1, Len(l.patterns) - 1)
                   \o <<PyAdd(l.patterns[Len(l.patterns)], r.patterns[1])>>
                   \o Tail(r.patterns))

\* C14: when two sequences L and R of any lengths are concatenated and
\* last(L) + first(R) merges into one node M, the result is the sequence
\* L-without-last, M, R-without-first, and the operation never fails.
C14_BoundarySplice ==
  (op = "add" /\ BoundaryMerges(a, b)) =>
    (~IsErr(out.left) /\ out.left = Spliced(a, b))

\* a sequence node holds at least two elements
AtLeastTwo(p) == p.kind = "LongRegexPattern" => Len(p.patterns) >= 2

\* C15: constructing a concatenation sequence with fewer than two operands
\* fails with an AssertionError, and every sequence node that exists holds
\* at least two elements.
C15_SequenceNeedsTwo ==
  /\ (op = "long" /\ Len(a) < 2) => out.left = Raise("AssertionError")
  /\ op \in {"long", "longadd"} => (AtLeastTwo(out.left) /\ AtLeastTwo(out.right))

C15_Witness ==
  /\ op = "long"
  /\ Len(a) = 1
  /\ out.left = Raise("AssertionError")

\* C16: comparing with < two quantifiers whose inner patterns differ
\* fails with an AssertionError instead of returning a boolean.
C16_LtNeedsSameInner ==
  /\ (op \in {"lt", "tl"} /\ ~SameInner(a, b)) => out.left = Raise("AssertionError")
  /\ (op = "tl" /\ ~SameInner(a, b)) => out.right = Raise("AssertionError")

C16_Witness ==
  /\ op = "tl"
  /\ a.kind = "Optional"
  /\ b.kind = "Amount"
  /\ ~SameInner(a, b)
  /\ out.left = Raise("AssertionError")
  /\ out.right = Raise("AssertionError")

\* an Or holds at least two alternatives
NoSingleOr(p) == p.kind = "Or" => Cardinality(p.patterns) >= 2

\* C17: no union produces an Or holding a single alternative: when the
\* members reduce to one pattern, that pattern itself is returned.
C17_NoSingleAlternativeOr ==
  /\ op \in {"or", "ro"} => NoSingleOr(out.left)
  /\ op = "ro" => NoSingleOr(out.right)

\* every quantifier in the node has a lowest count of at least zero and,
\* when it has a highest count, one that is at least the lowest
RECURSIVE BoundsInOrder(_)
BoundsInOrder(p) ==
  CASE p.kind = "Amount" ->
         /\ p.i >= 0
         /\ p.j # NoJ => p.j >= p.i
         /\ BoundsInOrder(p.pattern)
    [] p.kind \in {"Optional", "Multi"} -> BoundsInOrder(p.pattern)
    [] p.kind = "LongRegexPattern" ->
         \A k \in 1..Len(p.patterns) : BoundsInOrder(p.patterns[k])
    [] p.kind = "Or" -> \A m \in p.patterns : BoundsInOrder(m)
    [] OTHER -> TRUE

\* C18: every quantifier reached by applying union or concatenation to
\* operands whose quantifiers have low >= 0 and high >= low has low >= 0
\* and, when it has an upper bound, high >= low.
C18_BoundsStayInOrder ==
  (BoundsInOrder(a) /\ BoundsInOrder(b) /\ BoundsInOrder(c)) =>
    (BoundsInOrder(out.left) /\ BoundsInOrder(out.right))

\* a quantifier with a highest count
IsBounded(q) == IsOccurrence(q) /\ ~QUnbounded(q)

\* the strings made of QLow(q)..QHigh(q) examples of the inner pattern of q
RepeatedInner(q) ==
  UNION {Repeats(Examples(q.pattern), n) : n \in QLow(q)..QHigh(q)}

\* C19: issubset(a, b) is true exactly when every string of examples(a)
\* fully matches b; the examples of a bounded quantifier are exactly the
\* strings made of i..j examples of its inner pattern; the examples of an
\* Or are the union of its members' examples.
C19_OracleOnFiniteCases ==
  /\ op = "subset" =>
       (out.right.value <=> \A x \in out.left.items : FullMatch(b, x))
  /\ (op \in {"examples", "subset"} /\ IsBounded(a)) =>
       out.left.items = RepeatedInner(a)
  /\ (op \in {"examples", "subset"} /\ a.kind = "Or") =>
       out.left.items = UNION {Examples(m) : m \in a.patterns}

\* the maximal runs of consecutive code points of E, as <<first, last>>
RunStarts(E) == {x \in E : x - 1 \notin E}

RunEnds(E) == {x \in E : x + 1 \notin E}

Runs(E) ==
  {<<x, CHOOSE y \in RunEnds(E) : y >= x /\ \A z \in RunEnds(E) : z >= x => y <= z>> :
     x \in RunStarts(E)}

\* the characters of the runs of length 1 or 2
ShortRunChars(E) == UNION {r[1]..r[2] : r \in {q \in Runs(E) : q[2] - q[1] < 2}}

\* one Range for each run of length 3 or more, one Set of the others
RunFragments(E) ==
  {Range(r[1], r[2]) : r \in {q \in Runs(E) : q[2] - q[1] >= 2}}
  \cup (IF ShortRunChars(E) = {} THEN {} ELSE {Set(SortedList(ShortRunChars(E)))})

\* r is the single fragment of F, or the Or of the fragments of F
IsNodeOf(r, F) ==
  IF Cardinality(F) = 1 THEN r \in F
  ELSE r.kind = "Or" /\ {Key(m) : m \in r.patterns} = {Key(f) : f \in F}

\* E is the character set of ANY, DIGIT, WORD or WHITESPACE
IsCanonical(E) == \E k \in 1..Len(SpecialChars) : E = CharsOf(SpecialChars[k])

Inside(F, k) == {f \in F : CharsOf(f) \subseteq CharsOf(SpecialChars[k])}

\* these fragments generate exactly the characters of the class
MakesUp(F, k) ==
  /\ Inside(F, k) # {}
  /\ UNION {CharsOf(f) : f \in Inside(F, k)} = CharsOf(SpecialChars[k])

\* the classes made up by fragments of F that lie in no larger such group
ClassesIn(F) ==
  {k \in 1..Len(SpecialChars) :
     /\ MakesUp(F, k)
     /\ ~\E h \in 1..Len(SpecialChars) :
           MakesUp(F, h) /\ Inside(F, k) \subseteq Inside(F, h) /\ Inside(F, k) # Inside(F, h)}

\* F with each such group of fragments replaced by its canonical class
WithClasses(F) ==
  (F \ UNION {Inside(F, k) : k \in ClassesIn(F)})
  \cup {SpecialChars[k] : k \in ClassesIn(F)}

IsCanonicalQuantifier(q) ==
  q.kind = "Amount" =>
    /\ ~(q.i = 0 /\ q.j = 1)
    /\ ~(q.i \in {0, 1} /\ q.j = NoJ /\ q.or_more)

\* C21: every quantifier node returned by a union or a concatenation is
\* in canonical form for its interval: no result is an Amount with bounds
\* 0..1, or an Amount with lower bound 0 or 1 and or_more.
C21_ResultsCanonical ==
  /\ op \in {"or", "ro"} => IsCanonicalQuantifier(out.left)
  /\ op = "ro" => IsCanonicalQuantifier(out.right)

\* x sorts before y by one of the four rules of the ordering
SortsBefore(x, y) ==
  \/ x.kind = "Optional" /\ y.kind = "Amount"
  \/ x.kind = "Amount" /\ y.kind = "Amount" /\ x.i < y.i
  \/ /\ x.kind = "Amount" /\ y.kind = "Amount" /\ x.i = y.i
     /\ ~QUnbounded(x) /\ QUnbounded(y)
  \/ x.kind = "Amount" /\ y.kind = "Multi"

\* the texts of a list of nodes
Texts(s) == [k \in 1..Len(s) |-> s[k].regex]

\* C22: for quantifiers x and y over the same inner pattern, x < y is true
\* when x is Optional and y an Amount, when both are Amounts and x has the
\* smaller lower bound, when both are Amounts with the same lower bound, x
\* bounded and y unbounded, and when x is an Amount and y a Multi; so the
\* list [Optional, unbounded Amount, bounded Amount with a smaller lower
\* bound] sorts to [Optional, bounded Amount, unbounded Amount].
C22_LtRules ==
  /\ (op \in {"lt", "tl"} /\ SameInner(a, b) /\ SortsBefore(a, b)) =>
       out.left = PyBool(TRUE)
  /\ (op = "tl" /\ SameInner(a, b) /\ SortsBefore(b, a)) =>
       out.right = PyBool(TRUE)
  /\ (op = "lt" /\ SameInner(a, b) /\ a.kind = "Amount" /\ b.kind = "Amount"
        /\ QUnbounded(a) /\ ~QUnbounded(b) /\ b.i < a.i) =>
       Texts(Sorted(<<Optional(a.arg), a, b>>)) = Texts(<<Optional(a.arg), b, a>>)

C22_Witness ==
  /\ op = "lt"
  /\ SameInner(a, b)
  /\ a.kind = "Amount" /\ b.kind = "Amount"
  /\ a.i = b.i /\ a.j = 3 /\ QUnbounded(b)
  /\ out.left = PyBool(TRUE)

\* x and y, side by side in a sequence, could still be merged: they are
\* equal, or one is a quantifier over the other
Mergeable(x, y) ==
  \/ PyEq(x, y)
  \/ IsOccurrence(y) /\ PyEq(x, y.pattern)
  \/ IsOccurrence(x) /\ PyEq(y, x.pattern)

\* no two adjacent elements of a sequence node are mergeable
FullyMerged(p) ==
  p.kind = "LongRegexPattern" =>
    \A k \in 1..(Len(p.patterns) - 1) : ~Mergeable(p.patterns[k], p.patterns[k + 1])

\* C23: every concatenation sequence reached by a chain of + operations
\* has no two adjacent elements that are further mergeable: no adjacent
\* pair is equal and no element is next to a quantifier over it.
C23_SequencesFullyMerged ==
  (FullyMerged(a) /\ FullyMerged(b) /\ FullyMerged(c)) =>
    (FullyMerged(out.left) /\ FullyMerged(out.right))

\* the members of list at the positions S, in list order
Picked(list, S) == SelectSeq2(list, S)

\* the position in list of its member x
PosOf(list, x) == CHOOSE k \in 1..Len(list) : list[k] = x

\* the positions of s come before those of t in lexicographic order
RECURSIVE LexBefore(_, _, _)
LexBefore(list, s, t) ==
  IF s = <<>> \/ t = <<>> THEN FALSE
  ELSE IF PosOf(list, Head(s)) # PosOf(list, Head(t))
  THEN PosOf(list, Head(s)) < PosOf(list, Head(t))
  ELSE LexBefore(list, Tail(s), Tail(t))

RECURSIVE TwoTo(_)
TwoTo(n) == IF n = 0 THEN 1 ELSE 2 * TwoTo(n - 1)

\* C24: the combination search over a list of n fragments yields every
\* non-empty proper sub-collection exactly once, sizes n-1 down to 1,
\* same-size sub-collections in lexicographic position order: 2^n - 2
\* sub-collections, none for n <= 1.
C24_CombinationOrder ==
  op \in {"combos", "ways"} =>
    /\ Len(a) <= 1 => out.left.items = <<>>
    /\ Len(a) >= 1 => Len(out.left.items) = TwoTo(Len(a)) - 2
    /\ {out.left.items[k] : k \in 1..Len(out.left.items)}
         = {Picked(a, S) : S \in (SUBSET (1..Len(a))) \ {{}, 1..Len(a)}}
    /\ \A k \in 1..(Len(out.left.items) - 1) :
         \/ Len(out.left.items[k]) > Len(out.left.items[k + 1])
         \/ /\ Len(out.left.items[k]) = Len(out.left.items[k + 1])
            /\ LexBefore(a, out.left.items[k], out.left.items[k + 1])

C24_Witness ==
  /\ op = "combos"
  /\ Len(a) = 3
  /\ out.left.items = << <<a[1], a[2]>>, <<a[1], a[3]>>, <<a[2], a[3]>>,
                         <<a[1]>>, <<a[2]>>, <<a[3]>> >>

\* the union of the examples of sub-collection mg is a canonical class's set
IsClassSet(mg) ==
  \E k \in 1..Len(SpecialChars) : UnionExamples(mg) = PlainExChars(SpecialChars[k])

\* sub-collection number k of the search is a key of the mapping
Recorded(k) ==
  \E w \in 1..Len(out.right.items) : out.right.items[w].key = out.left.items[k]

\* a sub-collection is recorded exactly when its examples are a class's set
\* and no sub-collection recorded before it has a superset of them; the
\* value recorded is that class
RecordedExactlyWhen ==
  /\ \A k \in 1..Len(out.left.items) :
       Recorded(k) <=>
         /\ IsClassSet(out.left.items[k])
         /\ \A h \in 1..(k - 1) :
              Recorded(h) =>
                ~(UnionExamples(out.left.items[k])
                    \subseteq UnionExamples(out.left.items[h]))
  /\ \A w \in 1..Len(out.right.items) :
       /\ \E k \in 1..Len(out.left.items) : out.left.items[k] = out.right.items[w].key
       /\ UnionExamples(out.right.items[w].key) = PlainExChars(out.right.items[w].regex)
  /\ a = <<Range(48, 53), Range(52, 57), Range(51, 55), Range(97, 100)>> =>
       /\ Len(out.right.items) = 1
       /\ out.right.items[1].key = <<Range(48, 53), Range(52, 57), Range(51, 55)>>
       /\ out.right.items[1].regex = DIGIT

\* C25 as stated: find_merge_ways records a sub-collection exactly when its
\* examples are a canonical class's set and no earlier mapping has a
\* superset of them, and no recorded key's example set is contained in
\* another recorded key's.
C25_NoKeyContainedInAnother ==
  op = "ways" =>
    /\ RecordedExactlyWhen
    /\ \A w, v \in 1..Len(out.right.items) :
         w # v => ~(out.right.items[w].examples \subseteq out.right.items[v].examples)

\* C25 amended: find_merge_ways records a sub-collection exactly when its
\* examples are a canonical class's set and no earlier mapping has a
\* superset of them, and no recorded key's example set is contained in the
\* example set of a key recorded before it.
C25_NoKeyContainedInEarlier ==
  op = "ways" =>
    /\ RecordedExactlyWhen
    /\ \A w, v \in 1..Len(out.right.items) :
         w < v => ~(out.right.items[v].examples \subseteq out.right.items[w].examples)

C25_Witness ==
  /\ op = "ways"
  /\ a = <<Range(48, 53), Range(52, 57), Range(51, 55), Range(97, 100)>>
  /\ IsClassSet(<<Range(48, 53), Range(52, 57)>>)
  /\ Len(out.right.items) = 1
  /\ out.right.items[1].regex = DIGIT

\* the alternatives of a result: the members of an Or, else the node itself
Alternatives(p) == IF p.kind = "Or" THEN p.patterns ELSE {p}

\* m is a quantifier over the inner pattern of q
OverInnerOf(q, m) == IsOccurrence(m) /\ PyEq(m.pattern, q.pattern)

\* r is the union of quantifier q with the Or O: a node whose alternatives
\* are the members of O that are not quantifiers over q's inner pattern,
\* unchanged, and besides them only what q and the other members merge to:
\* quantifiers over q's inner pattern, or that inner pattern itself
KeepsOtherMembers(r, q, O) ==
  /\ ~IsErr(r)
  /\ \A m \in O.patterns :
       ~OverInnerOf(q, m) => \E x \in Alternatives(r) : Key(x) = Key(m)
  /\ \A x \in Alternatives(r) :
       \/ \E m \in O.patterns : ~OverInnerOf(q, m) /\ Key(x) = Key(m)
       \/ OverInnerOf(q, x)
       \/ PyEq(x, q.pattern)

\* C26: the union of a quantifier q with an Or O, in either order, returns
\* an Or or a single pattern whose members are the members of O that are
\* not quantifiers over q's inner pattern, unchanged, together with the
\* merge of q with the members of O that are, also when those do not all
\* merge into one node.
C26_QuantifierJoinsOr ==
  /\ (op = "or" /\ IsOccurrence(a) /\ b.kind = "Or") => KeepsOtherMembers(out.left, a, b)
  /\ (op = "or" /\ a.kind = "Or" /\ IsOccurrence(b)) => KeepsOtherMembers(out.left, b, a)

\* the call ran out of stack: its nested union calls never came to an end
NeverReturns(r) == IsErr(r) /\ r.err = "RecursionError"

\* C28: every union between an occurrence quantifier and an Or terminates:
\* q | O and O | q make finitely many nested union calls and return, also
\* when O holds two or more quantifiers over q's inner pattern whose
\* intervals do not touch.
C28_QuantifierOrTerminates ==
  /\ (op = "or" /\ IsOccurrence(a) /\ b.kind = "Or") => ~NeverReturns(out.left)
  /\ (op = "or" /\ a.kind = "Or" /\ IsOccurrence(b)) => ~NeverReturns(out.left)

\* C29: the quantifier ordering < is a strict order on quantifiers over one
\* inner pattern: x < y and y < x are never both true and x < x is false,
\* also for a bounded Amount with a larger lower bound against an unbounded
\* Amount with a smaller lower bound.
C29_LtIsStrict ==
  /\ (op = "tl" /\ SameInner(a, b)) =>
       ~(out.left = PyBool(TRUE) /\ out.right = PyBool(TRUE))
  /\ (op = "lt" /\ a = b) => out.left = PyBool(FALSE)

\* C30: equality and hashing are consistent for every pair of nodes:
\* whenever x == y is true (Or against Or by member sets, any other pairing
\* by rendered text, an Or against a non-Or node with the same text
\* included), hash(x) == hash(y).
C30_EqualNodesHashEqual ==
  (op = "hash" /\ out.left = PyBool(TRUE)) => out.right.of_a = out.right.of_b

====
